---- MODULE Spec2Model ----
(***************************************************************************)
(* The NCBI GenBank retriever of src/2025py2_28494/s28494_2025-2.py:       *)
(* class NCBIRetriever (search_taxid, fetch_records, generate_csv_report,  *)
(* generate_plot) and the pipeline main().  The remote database (Entrez)   *)
(* and the file system are the environment: each remote call and each      *)
(* file write draws its outcome from a small set.                          *)
(***************************************************************************)
EXTENDS Integers, Sequences, FiniteSets, TLC

\* min(max_records, 500), line 66
MaxBatch == 500
\* the upper end of the min-length clause, line 35
LenSentinel == 1000000
\* how many records the remote result set holds at most
MaxRemote == 3
\* how many records a fetched batch holds at most when the renderers are
\* run on batches of any content
MaxFetched == 3

\* Python's None / a missing attribute / a missing key: the empty tuple;
\* a present value v: the one-element tuple <<v>>.
None == <<>>
Some(v) == <<v>>

\* Python truthiness of an optional integer (None and 0 are falsy).
Truthy(x) == x # None /\ x[1] # 0

Min(a, b) == IF a <= b THEN a ELSE b

\* ---------------------------------------------------------------- inputs

TaxIds == {"9606", "7227"}
\* ScientificName of the taxonomy record the lookup returns
OrganismOf(taxid) == IF taxid = "9606" THEN "Homo sapiens" ELSE "Drosophila melanogaster"

\* <<min_length, max_length>> as a client of the class passes them
LengthFilters ==
    { <<None, None>>, <<Some(5), None>>, <<None, Some(7)>>, <<Some(5), Some(7)>>,
      <<Some(0), None>>, <<None, Some(0)>> }
\* what the user types at the two length prompts of main()
Typed == {"", "abc", "0", "5"}
\* start / max_records as a client passes them
Starts == {0, 1}
MaxRecordsArgs == {1, 500, 501, 10000}

\* int() of a string: defined on the numeric strings only
Numeric == {"0", "2", "3", "5"}
IntOf(s) == CASE s = "0" -> 0 [] s = "2" -> 2 [] s = "3" -> 3 [] s = "5" -> 5

\* ------------------------------------------------------------ environment

\* outcome of Entrez.esearch + Entrez.read: a fault, or a response
\* dictionary: well-formed, or with one of its keys missing
Response(c, w, k) == [fault |-> FALSE, Count |-> c, WebEnv |-> w, QueryKey |-> k]
SearchResponses ==
    { Response(Some(c), Some(w), Some("1")) : c \in {"0", "2", "3"}, w \in {"w1", "w2"} }
    \cup { Response(None, Some("w1"), Some("1")), Response(Some("2"), None, Some("1")) }
    \cup { Response(Some("2"), Some(w), None) : w \in {"w1", "w2"} }
SearchFault == [fault |-> TRUE, Count |-> None, WebEnv |-> None, QueryKey |-> None]
\* outcomes of the two remote calls of search_taxid: the taxonomy lookup
\* (Entrez.efetch + Entrez.read + records[0]["ScientificName"]) faults,
\* returns no record, or returns the organism and the search then runs
GatewayOutcomes ==
    { [lookup |-> l, search |-> SearchFault] : l \in {"fault", "empty"} }
    \cup { [lookup |-> "ok", search |-> r] : r \in {SearchFault} \cup SearchResponses }
\* outcome of Entrez.efetch(db="nucleotide") + SeqIO.parse
FetchOutcomes == {"fault", "garbled", "ok"}
\* outcome of writing a report file
WriteOutcomes == {"ok", "fail"}

\* the GenBank entries of the remote result set: entry i has accession
\* <<"NM", i>> and a sequence of i % 3 residues (1, 2, 0, 1, 2, 0, ...)
Bases == <<"a", "c">>
RawRecord(i) ==
    [accession |-> <<"NM", i>>, sequence |-> SubSeq(Bases, 1, i % 3),
     definition |-> <<"entry", i>>]
\* the result sets the remote service may hold
RemoteSets == { [i \in 1..n |-> RawRecord(i)] : n \in 0..MaxRemote }

\* ------------------------------------------------------- calls and results

\* a retriever as __init__ leaves it: none of webenv, query_key, count
NoSession == [webenv |-> None, query_key |-> None, count |-> None]

\* print(...): one line of output, the message and the values it carries
Say(msg, values) == [msg |-> msg, values |-> values]

\* the state of a method call in progress: exc is TRUE while an exception
\* is propagating; self is the retriever's attributes so far
Raise(call, path) == [call EXCEPT !.exc = TRUE, !.path = path]
Return(call, value, path) == [call EXCEPT !.ret = value, !.path = path]

\* a handler that returns the value and prints nothing
CaughtSilent(call, line, value) ==
    IF call.exc THEN [call EXCEPT !.exc = FALSE, !.ret = value] ELSE call

\* no handler: the exception leaves the method
Uncaught(call, line, value) == call

\* a handler `except Exception as e: print(...); return value`
Caught(call, line, value) ==
    IF call.exc
    THEN [call EXCEPT !.exc = FALSE, !.ret = value, !.out = Append(@, line)]
    ELSE call

\* no call yet.  lookup is what the taxonomy lookup answered and organism
\* the organism_name read from it
NoCall == [op |-> "none", args |-> <<>>, exc |-> FALSE, ret |-> None,
           out |-> <<>>, reqs |-> <<>>, path |-> "", self |-> NoSession,
           lookup |-> "", organism |-> None]

\* ----------------------------------------------------------- search_taxid

TaxonClause(taxid) == [field |-> "Organism", txid |-> taxid]
LenClause(lo, hi) == [field |-> "SLEN", lo |-> lo, hi |-> hi]

\* the search term: its clauses, in order, joined by " AND "
SearchTerm(taxid, min_length, max_length) ==
    <<TaxonClause(taxid)>>
      \o (IF Truthy(min_length) THEN <<LenClause(min_length[1], LenSentinel)>> ELSE <<>>)
      \o (IF Truthy(max_length) THEN <<LenClause(0, max_length[1])>> ELSE <<>>)

\* the count returned but not stored
StoreSessionNoCount(call, search, count) ==
    IF search.WebEnv = None THEN Raise(call, "no_webenv")
    ELSE IF search.QueryKey = None
         THEN Raise([call EXCEPT !.self.webenv = search.WebEnv], "no_querykey")
         ELSE Return([call EXCEPT !.self.webenv = search.WebEnv,
                                  !.self.query_key = search.QueryKey],
                     Some(count), "ok")

\* the attributes search_taxid stores, one assignment after the other
StoreSession(call, search, count) ==
    IF search.WebEnv = None THEN Raise(call, "no_webenv")
    ELSE LET c1 == [call EXCEPT !.self.webenv = search.WebEnv]
         IN IF search.QueryKey = None THEN Raise(c1, "no_querykey")
            ELSE Return([c1 EXCEPT !.self.query_key = search.QueryKey,
                                   !.self.count = Some(count)],
                        Some(count), "ok")

\* a lookup that fails is swallowed and the search goes on
LookupTaxonSwallow(call, taxid, lookup) ==
    [call EXCEPT !.lookup = lookup,
                 !.reqs = Append(@, [op |-> "efetch", db |-> "taxonomy",
                                     id |-> taxid, retmode |-> "xml"]),
                 !.organism = Some("Unknown")]

\* lines 27-30: the taxonomy lookup and the organism name read from it
LookupTaxon(call, taxid, lookup) ==
    LET c1 == [call EXCEPT !.lookup = lookup,
                           !.reqs = Append(@, [op |-> "efetch", db |-> "taxonomy",
                                               id |-> taxid, retmode |-> "xml"])]
    IN  IF lookup = "fault" THEN Raise(c1, "lookup_fault")
        ELSE IF lookup = "empty" THEN Raise(c1, "lookup_empty")
        ELSE [c1 EXCEPT !.organism = Some(OrganismOf(taxid)),
                        !.out = Append(@, Say("Organism", <<OrganismOf(taxid), taxid>>))]

\* the body of the try block of search_taxid
SearchTry(self, taxid, min_length, max_length, lookup, search) ==
    LET c0 == [NoCall EXCEPT !.op = "search_taxid",
                             !.args = <<taxid, min_length, max_length>>,
                             !.self = self,
                             !.out = <<Say("Searching", <<taxid>>)>>]
        c1 == LookupTaxon(c0, taxid, lookup)
    IN  IF c1.exc THEN c1
        ELSE
        LET organism_name == c1.organism[1]
            search_term == SearchTerm(taxid, min_length, max_length)
            c2 == [c1 EXCEPT
                     !.reqs = Append(@, [op |-> "esearch", db |-> "nucleotide",
                                         term |-> search_term, usehistory |-> "y"])]
        IN  IF search.fault THEN Raise(c2, "search_fault")
            ELSE IF search.Count = None \/ search.Count[1] \notin Numeric
                 THEN Raise(c2, "bad_count")
            ELSE
            LET count == IntOf(search.Count[1])
            IN  IF count = 0
                THEN Return([c2 EXCEPT !.out = Append(@, Say("NoRecordsFor", <<organism_name>>))],
                            None, "zero")
                ELSE StoreSession([c2 EXCEPT !.out = Append(@, Say("Found", <<count>>))],
                                  search, count)

\* the three attributes stored before the test `if count == 0`
search_taxid_StoreFirst(self, taxid, min_length, max_length, lookup, search) ==
    LET call == Caught(SearchTry(self, taxid, min_length, max_length, lookup, search),
                       Say("ErrorSearching", <<taxid>>), None)
    IN  IF call.path = "zero"
        THEN [call EXCEPT !.self = [webenv |-> search.WebEnv,
                                    query_key |-> search.QueryKey,
                                    count |-> Some(0)]]
        ELSE call

\* the session of an earlier search dropped when a new search starts
search_taxid_ResetFirst(self, taxid, min_length, max_length, lookup, search) ==
    Caught(SearchTry(NoSession, taxid, min_length, max_length, lookup, search),
           Say("ErrorSearching", <<taxid>>), None)

search_taxid(self, taxid, min_length, max_length, lookup, search) ==
    Caught(SearchTry(self, taxid, min_length, max_length, lookup, search),
           Say("ErrorSearching", <<taxid>>), None)

\* ---------------------------------------------------------- fetch_records

\* only one of the two attributes tested
HasWebenvOnly(self) == self.webenv # None

\* hasattr(self, 'webenv') and hasattr(self, 'query_key')
HasSession(self) == self.webenv # None /\ self.query_key # None

\* the caller's max_records passed on as it is
BatchSizeUnclamped(max_records) == max_records

\* batch_size = min(max_records, 500)
BatchSize(max_records) == Min(max_records, MaxBatch)

\* what the remote service holds at retstart .. retstart + retmax - 1
GatewayBlock(rem, retstart, retmax) ==
    SubSeq(rem, retstart + 1, Min(retstart + retmax, Len(rem)))

\* list(SeqIO.parse(handle, "genbank"))
Parse(block) ==
    [i \in 1..Len(block) |->
        [id |-> block[i].accession, seq |-> block[i].sequence,
         description |-> block[i].definition]]

\* a fetch that uses the session up: the query key is dropped after it
FetchTryConsume(self, start, max_records, gw, rem) ==
    [NoCall EXCEPT
        !.op = "fetch_records", !.args = <<start, max_records>>,
        !.self = [self EXCEPT !.query_key = None],
        !.reqs = <<[op |-> "efetch", db |-> "nucleotide", rettype |-> "gb",
                    retmode |-> "text", retstart |-> start,
                    retmax |-> BatchSize(max_records), webenv |-> self.webenv,
                    query_key |-> self.query_key]>>,
        !.ret = Parse(GatewayBlock(rem, start, BatchSize(max_records))),
        !.path = "ok"]

\* a fetch that goes on to the next page while the stored count says
\* that more records remain
FetchTryPaginate(self, start, max_records, gw, rem) ==
    LET batch_size == BatchSize(max_records)
        page(from) == [op |-> "efetch", db |-> "nucleotide", rettype |-> "gb",
                       retmode |-> "text", retstart |-> from,
                       retmax |-> batch_size, webenv |-> self.webenv,
                       query_key |-> self.query_key]
        more == self.count # None /\ start + batch_size < self.count[1]
    IN  [NoCall EXCEPT
            !.op = "fetch_records", !.args = <<start, max_records>>,
            !.self = self,
            !.reqs = IF more THEN <<page(start), page(start + batch_size)>>
                     ELSE <<page(start)>>,
            !.ret = Parse(GatewayBlock(rem, start, batch_size)
                          \o (IF more THEN GatewayBlock(rem, start + batch_size, batch_size)
                               ELSE <<>>)),
            !.path = "ok"]

\* the body of the try block of fetch_records
FetchTry(self, start, max_records, gw, rem) ==
    LET batch_size == BatchSize(max_records)
        c0 == [NoCall EXCEPT
               !.op = "fetch_records", !.args = <<start, max_records>>,
               !.self = self,
               !.reqs = <<[op |-> "efetch", db |-> "nucleotide", rettype |-> "gb",
                           retmode |-> "text", retstart |-> start,
                           retmax |-> batch_size, webenv |-> self.webenv,
                           query_key |-> self.query_key]>>]
    IN  IF gw = "fault" THEN Raise(c0, "fetch_fault")
        ELSE IF gw = "garbled" THEN Raise(c0, "parse_error")
        ELSE Return(c0, Parse(GatewayBlock(rem, start, batch_size)), "ok")

\* a fetch that stores the number of records it got as the count
fetch_records_Recount(self, start, max_records, gw, rem) ==
    LET call == IF ~HasSession(self)
                THEN [NoCall EXCEPT !.op = "fetch_records", !.path = "no_session",
                                    !.args = <<start, max_records>>, !.self = self,
                                    !.out = <<Say("NoSearchResults", <<>>)>>]
                ELSE Caught(FetchTry(self, start, max_records, gw, rem),
                            Say("ErrorFetching", <<>>), <<>>)
    IN  [call EXCEPT !.self.count = Some(Len(call.ret))]

fetch_records(self, start, max_records, gw, rem) ==
    IF ~HasSession(self)
    THEN [NoCall EXCEPT !.op = "fetch_records", !.args = <<start, max_records>>,
                        !.self = self, !.path = "no_session",
                        !.out = <<Say("NoSearchResults", <<>>)>>]
    ELSE Caught(FetchTry(self, start, max_records, gw, rem),
                Say("ErrorFetching", <<>>), <<>>)

\* ------------------------------------------------------------- renderers

CsvHeader == <<"Accession Number", "Sequence Length", "Description">>
CsvRow(record) == <<record.id, Len(record.seq), record.description>>

\* generate_csv_report: the file it leaves (None when open() fails) and
\* the line it prints
generate_csv_report(records, io) ==
    IF io = "fail"
    THEN [file |-> None, out |-> <<Say("ErrorCsv", <<>>)>>]
    ELSE [file |-> Some(<<CsvHeader>> \o [i \in 1..Len(records) |-> CsvRow(records[i])]),
          out |-> <<Say("CsvSaved", <<>>)>>]

\* sorted(records, key=lambda rec: len(rec.seq), reverse=True): stable,
\* records of equal length keep their order
RECURSIVE InsertDesc(_, _)
InsertDesc(sorted, rec) ==
    IF sorted = <<>> THEN <<rec>>
    ELSE IF Len(Head(sorted).seq) >= Len(rec.seq)
         THEN <<Head(sorted)>> \o InsertDesc(Tail(sorted), rec)
         ELSE <<rec>> \o sorted

RECURSIVE SortedDesc(_)
SortedDesc(records) ==
    IF records = <<>> THEN <<>>
    ELSE InsertDesc(SortedDesc(SubSeq(records, 1, Len(records) - 1)),
                    records[Len(records)])

\* the chart drawn from the records in the order they came in
generate_plot_Unsorted(records, io) ==
    IF io = "fail"
    THEN [file |-> None, out |-> <<Say("ErrorPlot", <<>>)>>]
    ELSE [file |-> Some([x |-> [i \in 1..Len(records) |-> records[i].id],
                         y |-> [i \in 1..Len(records) |-> Len(records[i].seq)]]),
          out |-> <<Say("PlotSaved", <<>>)>>]

\* generate_plot: the chart it saves (None when it fails) and the line it prints
generate_plot(records, io) ==
    LET sorted_records == SortedDesc(records)
        accession_numbers == [i \in 1..Len(sorted_records) |-> sorted_records[i].id]
        sequence_lengths == [i \in 1..Len(sorted_records) |-> Len(sorted_records[i].seq)]
    IN  IF io = "fail"
        THEN [file |-> None, out |-> <<Say("ErrorPlot", <<>>)>>]
        ELSE [file |-> Some([x |-> accession_numbers, y |-> sequence_lengths]),
              out |-> <<Say("PlotSaved", <<>>)>>]


VARIABLES
    retriever,    \* the NCBIRetriever object: webenv, query_key, count
    pc,           \* where main() stands; "client" when the class is used directly
    locals,       \* main()'s taxid, min_length, max_length, count, records
    last,         \* the most recent method call: arguments, requests, result
    sess,         \* the search response of the last search_taxid that returned a count
    remote,       \* the remote result set (unchanged during the run)
    report_csv,   \* the tabular file
    report_plot,  \* the chart file
    crashed,      \* an exception left a method uncaught
    run_sent      \* how many lookups, searches and fetches main() has sent

vars == <<retriever, pc, locals, last, sess, remote, report_csv, report_plot, crashed,
          run_sent>>

NoneSent == [lookup |-> 0, search |-> 0, fetch |-> 0]

\* the requests of one call added to the run's tally
Tally(sent, reqs) ==
    LET n(op, db) == Cardinality({ i \in 1..Len(reqs) : reqs[i].op = op /\ reqs[i].db = db })
    IN  [lookup |-> sent.lookup + n("efetch", "taxonomy"),
         search |-> sent.search + n("esearch", "nucleotide"),
         fetch |-> sent.fetch + n("efetch", "nucleotide")]

NoLocals == [taxid |-> "", min_length |-> None, max_length |-> None,
             count |-> None, records |-> <<>>]

\* after construction: NCBIRetriever.__init__ sets none of the session
\* attributes; the program is either main() or a client of the class
Init ==
    /\ retriever = NoSession
    /\ pc \in {"input", "client"}
    /\ locals = NoLocals
    /\ last = NoCall
    /\ sess = None
    /\ remote \in RemoteSets
    /\ report_csv = None
    /\ report_plot = None
    /\ crashed = FALSE
    /\ run_sent = NoneSent

\* the effect of a search_taxid call on the retriever and the history
DoSearch(taxid, min_length, max_length, gw) ==
    LET call == search_taxid(retriever, taxid, min_length, max_length, gw.lookup, gw.search)
    IN  /\ retriever' = call.self
        /\ last' = call
        /\ sess' = IF ~call.exc /\ call.ret # None THEN Some(gw.search) ELSE sess
        /\ crashed' = (crashed \/ call.exc)

\* the effect of a fetch_records call
DoFetch(start, max_records, gw) ==
    LET call == fetch_records(retriever, start, max_records, gw, remote)
    IN  /\ retriever' = call.self
        /\ last' = call
        /\ crashed' = (crashed \/ call.exc)
        /\ UNCHANGED sess

\* int(input(...) or default)
IntOrDefault(typed, default) == IF typed = "" THEN default ELSE IntOf(typed)

\* main(), lines 138-144: the taxid and the two length prompts
MainInput ==
    /\ pc = "input"
    /\ \E taxid \in TaxIds, tmin \in Typed, tmax \in Typed :
          locals' = IF (tmin = "" \/ tmin \in Numeric) /\ (tmax = "" \/ tmax \in Numeric)
                    THEN [locals EXCEPT !.taxid = taxid,
                                        !.min_length = Some(IntOrDefault(tmin, 0)),
                                        !.max_length = Some(IntOrDefault(tmax, LenSentinel))]
                    ELSE [locals EXCEPT !.taxid = taxid,
                                        !.min_length = None,
                                        !.max_length = None]
    /\ pc' = "search"
    /\ UNCHANGED <<retriever, last, sess, remote, report_csv, report_plot, crashed,
                   run_sent>>

\* main(), lines 146-150
MainSearch ==
    /\ pc = "search"
    /\ \E gw \in GatewayOutcomes :
          /\ DoSearch(locals.taxid, locals.min_length, locals.max_length, gw)
          /\ locals' = [locals EXCEPT !.count = last'.ret]
          /\ pc' = IF last'.exc \/ ~Truthy(last'.ret) THEN "done" ELSE "fetch"
    /\ run_sent' = Tally(run_sent, last'.reqs)
    /\ UNCHANGED <<remote, report_csv, report_plot>>

\* the fetch is tried again for as long as the gateway faults
MainFetchRetry ==
    /\ pc = "fetch"
    /\ \E gw \in FetchOutcomes :
          /\ DoFetch(0, 10, gw)
          /\ locals' = [locals EXCEPT !.records = last'.ret]
          /\ pc' = IF last'.path \in {"fetch_fault", "parse_error"} THEN "fetch"
                   ELSE IF last'.exc \/ last'.ret = <<>> THEN "done" ELSE "csv"
    /\ run_sent' = Tally(run_sent, last'.reqs)
    /\ UNCHANGED <<remote, report_csv, report_plot>>

\* main(), lines 152-157
MainFetch ==
    /\ pc = "fetch"
    /\ \E gw \in FetchOutcomes :
          /\ DoFetch(0, 10, gw)
          /\ locals' = [locals EXCEPT !.records = last'.ret]
          /\ pc' = IF last'.exc \/ last'.ret = <<>> THEN "done" ELSE "csv"
    /\ run_sent' = Tally(run_sent, last'.reqs)
    /\ UNCHANGED <<remote, report_csv, report_plot>>

\* the pipeline gives up when the tabular file cannot be written
MainCsvAbort ==
    /\ pc = "csv"
    /\ \E io \in WriteOutcomes :
          LET r == generate_csv_report(locals.records, io)
          IN  /\ report_csv' = r.file
              /\ last' = [NoCall EXCEPT !.op = "generate_csv_report", !.out = r.out,
                                        !.self = retriever]
              /\ pc' = IF r.file = None THEN "done" ELSE "plot"
    /\ UNCHANGED <<retriever, locals, sess, remote, report_plot, crashed, run_sent>>

\* main(), lines 159-161
MainCsv ==
    /\ pc = "csv"
    /\ \E io \in WriteOutcomes :
          LET r == generate_csv_report(locals.records, io)
          IN  /\ report_csv' = r.file
              /\ last' = [NoCall EXCEPT !.op = "generate_csv_report", !.out = r.out,
                                        !.self = retriever]
    /\ pc' = "plot"
    /\ UNCHANGED <<retriever, locals, sess, remote, report_plot, crashed, run_sent>>

\* main(), lines 163-165
MainPlot ==
    /\ pc = "plot"
    /\ \E io \in WriteOutcomes :
          LET r == generate_plot(locals.records, io)
          IN  /\ report_plot' = r.file
              /\ last' = [NoCall EXCEPT !.op = "generate_plot", !.out = r.out,
                                        !.self = retriever]
    /\ pc' = "done"
    /\ UNCHANGED <<retriever, locals, sess, remote, report_csv, crashed, run_sent>>

\* a client of the class calls search_taxid with arguments of its choice
ClientSearch ==
    /\ pc = "client"
    /\ \E taxid \in TaxIds, filter \in LengthFilters, gw \in GatewayOutcomes :
          DoSearch(taxid, filter[1], filter[2], gw)
    /\ UNCHANGED <<pc, locals, remote, report_csv, report_plot, run_sent>>

\* a client of the class calls fetch_records with arguments of its choice
ClientFetch ==
    /\ pc = "client"
    /\ \E start \in Starts, max_records \in MaxRecordsArgs, gw \in FetchOutcomes :
          DoFetch(start, max_records, gw)
    /\ UNCHANGED <<pc, locals, remote, report_csv, report_plot, run_sent>>

Next ==
    \/ MainInput
    \/ MainSearch
    \/ MainFetch
    \/ MainCsv
    \/ MainPlot
    \/ ClientSearch
    \/ ClientFetch

Spec == Init /\ [][Next]_vars

\* a step of main()
MainStep ==
    \/ MainInput
    \/ MainSearch
    \/ MainFetch
    \/ MainCsv
    \/ MainPlot

\* main() is a sequential program: while it has a next statement it
\* executes it (every prompt is answered, every remote call and every
\* write returns or raises)
FairSpec == Spec /\ WF_vars(MainStep)

\* ---------------------------------------------------- the rendering stage

\* GenBank entries of any accession and sequence length
AnyRawRecords ==
    { [accession |-> <<"NM", i>>, sequence |-> SubSeq(Bases, 1, n),
       definition |-> <<"entry", i>>] : i \in 1..2, n \in 0..2 }

RECURSIVE ListsUpTo(_, _)
ListsUpTo(S, n) ==
    IF n = 0 THEN {<<>>}
    ELSE LET shorter == ListsUpTo(S, n - 1)
         IN  shorter \cup { Append(l, x) : l \in shorter, x \in S }

\* main() as it stands at line 159: the search returned a count, and
\* fetch_records(0, 10) returned the (non-empty) remote result set, which
\* here is any list of entries
RenderInit ==
    /\ \E raw \in ListsUpTo(AnyRawRecords, MaxFetched) \ {<<>>},
          taxid \in TaxIds :
          LET found == search_taxid(NoSession, taxid, None, None, "ok",
                                    Response(Some("3"), Some("w1"), Some("1")))
              fetched == fetch_records(found.self, 0, 10, "ok", raw)
          IN  /\ remote = raw
              /\ retriever = fetched.self
              /\ sess = Some(Response(Some("3"), Some("w1"), Some("1")))
              /\ last = fetched
              /\ run_sent = Tally(Tally(NoneSent, found.reqs), fetched.reqs)
              /\ locals = [NoLocals EXCEPT !.taxid = taxid, !.count = found.ret,
                                           !.records = fetched.ret]
    /\ pc = "csv"
    /\ report_csv = None
    /\ report_plot = None
    /\ crashed = FALSE

RenderNext ==
    \/ MainCsv
    \/ MainPlot

RenderSpec == RenderInit /\ [][RenderNext]_vars

\* ------------------------------------------------------------------ claims

\* some line of the printed output carries message msg
HasMsg(out, msg) == \E i \in 1..Len(out) : out[i].msg = msg

\* the gateway requests of the last call that are nucleotide fetches
FetchRequests ==
    { i \in 1..Len(last.reqs) :
        last.reqs[i].op = "efetch" /\ last.reqs[i].db = "nucleotide" }

\* C1: every fetch_records call that reaches the gateway asks it for
\* min(max_records, 500) records, so never for more than 500.
C1_RetmaxIsClamped ==
    last.op = "fetch_records" =>
        \A i \in FetchRequests :
            /\ last.reqs[i].retmax = (IF last.args[2] <= 500 THEN last.args[2] ELSE 500)
            /\ last.reqs[i].retmax <= 500

\* a fetch_records(.., 10000) call reached the gateway and asked for 500
C1_Witness ==
    /\ last.op = "fetch_records"
    /\ last.args[2] = 10000
    /\ FetchRequests # {}
    /\ \A i \in FetchRequests : last.reqs[i].retmax = 500

\* C2: while no search_taxid call has succeeded (whatever searches failed
\* before), fetch_records returns the empty list and a diagnostic, sends
\* the gateway nothing and raises nothing.
C2_FetchWithoutSession ==
    (last.op = "fetch_records" /\ sess = None) =>
        /\ last.ret = <<>>
        /\ last.reqs = <<>>
        /\ HasMsg(last.out, "NoSearchResults")
        /\ ~last.exc
        /\ ~crashed

\* fetch_records was called after a search that failed having stored webenv
C2_Witness ==
    /\ last.op = "fetch_records"
    /\ sess = None
    /\ retriever.webenv # None
    /\ last.ret = <<>>

\* C3: the retriever holds none of webenv, query_key and count, or all
\* three, taken from the response of one successful search.
C3_SessionAllOrNothing ==
    \/ retriever = NoSession
    \/ /\ sess # None
       /\ retriever.webenv = sess[1].WebEnv
       /\ retriever.query_key = sess[1].QueryKey
       /\ retriever.count = Some(IntOf(sess[1].Count[1]))

\* the last call was a search_taxid that got a response with Count == 0
ZeroCountSearch(call) == call.op = "search_taxid" /\ call.path = "zero"

\* C4: a search_taxid call whose search response has Count == 0 stores
\* nothing on the retriever, and the pipeline ends without fetching: it
\* goes from the search to its exit, from which no step is taken.
C4_ZeroCountCreatesNoSession ==
    /\ [][ (pc \in {"search", "client"} /\ ZeroCountSearch(last'))
              => /\ retriever' = retriever
                 /\ sess' = sess
                 /\ pc = "search" => pc' = "done" ]_vars
    /\ [][ pc # "done" ]_vars
    /\ [](pc \in {"fetch", "csv", "plot"} => Truthy(locals.count))

\* the pipeline ended on a search with Count == 0
C4_Witness ==
    /\ pc = "done"
    /\ ZeroCountSearch(last)
    /\ retriever = NoSession

\* the paths of search_taxid on which a remote call faulted or the
\* taxon resolved to no organism
SearchFaultPaths == {"lookup_fault", "lookup_empty", "search_fault"}

\* C5, as stated: the value search_taxid returns for Count == 0 differs
\* from the value it returns when a remote call faults or the taxon is
\* not resolved, and it carries the organism name.
C5_ZeroOutcomeDistinct ==
    ZeroCountSearch(last) =>
        /\ \A l \in {"fault", "empty"} :
              last.ret # search_taxid(retriever, last.args[1], last.args[2],
                                      last.args[3], l, SearchFault).ret
        /\ last.ret # search_taxid(retriever, last.args[1], last.args[2],
                                   last.args[3], "ok", SearchFault).ret
        /\ last.ret = Some(last.organism[1])

\* C5, amended: search_taxid returns None for Count == 0 as it does for a
\* fault or an unresolved taxon; the two differ in the printed line only:
\* "No records found for <organism name>" and no error line for Count == 0,
\* the error line and no "No records found for" line for the others.
C5_ZeroOutcomeByDiagnostic ==
    last.op = "search_taxid" =>
        /\ ZeroCountSearch(last) =>
              /\ last.ret = None
              /\ \E i \in 1..Len(last.out) :
                    /\ last.out[i].msg = "NoRecordsFor"
                    /\ last.out[i].values = <<OrganismOf(last.args[1])>>
              /\ ~HasMsg(last.out, "ErrorSearching")
        /\ last.path \in SearchFaultPaths =>
              /\ last.ret = None
              /\ HasMsg(last.out, "ErrorSearching")
              /\ ~HasMsg(last.out, "NoRecordsFor")

\* a search with Count == 0 returned, having printed the organism name
C5_Witness ==
    /\ ZeroCountSearch(last)
    /\ last.ret = None
    /\ last.organism = Some("Homo sapiens")
    /\ HasMsg(last.out, "NoRecordsFor")

\* C6, as stated: the query is the taxon clause, then the min-length clause
\* <min>:1000000 iff min_length is given, then the max-length clause
\* 0:<max> iff max_length is given (a bound of 0 counts as given).
C6_QueryClauses ==
    (last.op = "search_taxid" /\ Len(last.reqs) = 2) =>
        last.reqs[2].term =
            <<TaxonClause(last.args[1])>>
              \o (IF last.args[2] # None
                  THEN <<LenClause(last.args[2][1], 1000000)>> ELSE <<>>)
              \o (IF last.args[3] # None
                  THEN <<LenClause(0, last.args[3][1])>> ELSE <<>>)

\* C7: the remote calls are staged.  A search_taxid call sends the lookup
\* first and the search only when the lookup returned an organism; a fetch
\* goes to the gateway only after a search succeeded (in the pipeline: one
\* that returned a positive count); the renderers run only on a fetch
\* result of at least one record.
C7_RemoteCallsStaged ==
    /\ last.op = "search_taxid" =>
          /\ Len(last.reqs) \in {1, 2}
          /\ last.reqs[1].op = "efetch" /\ last.reqs[1].db = "taxonomy"
          /\ Len(last.reqs) = 2 =>
                /\ last.reqs[2].op = "esearch"
                /\ last.lookup = "ok"
                /\ last.organism = Some(OrganismOf(last.args[1]))
          /\ last.lookup \in {"fault", "empty"} => Len(last.reqs) = 1
    /\ (last.op = "fetch_records" /\ last.reqs # <<>>) =>
          /\ sess # None
          /\ pc # "client" => (locals.count # None /\ locals.count[1] > 0)
    /\ (pc \in {"csv", "plot"} \/ last.op \in {"generate_csv_report", "generate_plot"}
          \/ report_csv # None \/ report_plot # None) =>
          /\ Len(locals.records) >= 1
          /\ locals.count # None /\ locals.count[1] > 0

\* a pipeline run went through all stages and wrote the chart
C7_Witness ==
    /\ pc = "done"
    /\ report_plot # None
    /\ Len(locals.records) >= 2

\* the paths of fetch_records on which the remote call or the parse failed
FetchFaultPaths == {"fetch_fault", "parse_error"}

\* C8: a fault of a remote call never leaves the method it happens in:
\* search_taxid returns None and fetch_records the empty list, each with
\* its error line printed, and the pipeline then ends having written no
\* report.
C8_FaultsAreContained ==
    /\ ~crashed
    /\ ~last.exc
    /\ (last.op = "search_taxid" /\ last.path \in {"lookup_fault", "search_fault"}) =>
          /\ last.ret = None
          /\ HasMsg(last.out, "ErrorSearching")
    /\ (last.op = "fetch_records" /\ last.path \in FetchFaultPaths) =>
          /\ last.ret = <<>>
          /\ HasMsg(last.out, "ErrorFetching")
    /\ (pc # "client" /\ last.path \in {"lookup_fault", "search_fault"} \cup FetchFaultPaths) =>
          /\ pc = "done"
          /\ report_csv = None
          /\ report_plot = None

\* the pipeline ended on a fetch that faulted
C8_Witness ==
    /\ pc = "done"
    /\ last.op = "fetch_records"
    /\ last.path = "fetch_fault"
    /\ sess # None

\* C9: in a pipeline run, once a search has succeeded, no later step
\* changes the retriever's webenv, query_key or count, and no second
\* session is created.
C9_SessionReadOnlyInRun ==
    [][ (pc # "client" /\ sess # None) => (retriever' = retriever /\ sess' = sess) ]_vars

\* a run that created a session and went on to fetch and render
C9_Witness ==
    /\ pc = "done"
    /\ sess # None
    /\ last.op = "generate_plot"
    /\ retriever.count = Some(3)

\* C10: a fetch_records call leaves webenv, query_key and count as they
\* were, and a second call with the same start and max_records on the same
\* session, answered by the same remote result set, sends the same request
\* and returns the same records in the same order.
C10_FetchIdempotent ==
    [][ (pc \in {"fetch", "client"} /\ last'.op = "fetch_records")
           => /\ retriever' = retriever
              /\ (last.op = "fetch_records" /\ last.args = last'.args
                    /\ last.path = "ok" /\ last'.path = "ok")
                 => (last'.reqs = last.reqs /\ last'.ret = last.ret) ]_vars

\* a fetch on a session returned records from the remote result set
C10_Witness ==
    /\ pc = "client"
    /\ last.op = "fetch_records"
    /\ last.path = "ok"
    /\ Len(last.ret) >= 2
    /\ retriever = last.self

\* how many positions of sequence s hold value v
Occurrences(s, v) == Cardinality({ i \in 1..Len(s) : s[i] = v })

\* the <<accession, length>> pairs of a record list and of a chart
RecordPoints(records) == [i \in 1..Len(records) |-> <<records[i].id, Len(records[i].seq)>>]
ChartPoints(chart) == [i \in 1..Len(chart.x) |-> <<chart.x[i], chart.y[i]>>]

\* C11: the tabular report is the header row followed by one row per
\* fetched record in fetch order (n records, n + 1 lines); the chart plots
\* the same records (the same accession/length pairs, each as often) in
\* order of non-increasing sequence length.
C11_ReportsMatchRecords ==
    /\ report_csv # None =>
          LET rows == report_csv[1]
          IN  /\ Len(rows) = Len(locals.records) + 1
              /\ rows[1] = <<"Accession Number", "Sequence Length", "Description">>
              /\ \A i \in 1..Len(locals.records) :
                    rows[i + 1] = <<locals.records[i].id, Len(locals.records[i].seq),
                                    locals.records[i].description>>
    /\ report_plot # None =>
          LET chart == report_plot[1]
          IN  /\ Len(chart.x) = Len(locals.records)
              /\ Len(chart.y) = Len(locals.records)
              /\ \A i \in 1..Len(chart.y) - 1 : chart.y[i] >= chart.y[i + 1]
              /\ \A i \in 1..Len(locals.records) :
                    Occurrences(ChartPoints(chart), RecordPoints(locals.records)[i])
                      = Occurrences(RecordPoints(locals.records), RecordPoints(locals.records)[i])

\* both reports were written for three records that came in an order
\* other than by length, two of them of the same accession
C11_Witness ==
    /\ report_csv # None
    /\ report_plot # None
    /\ Len(locals.records) = 3
    /\ Len(locals.records[1].seq) < Len(locals.records[2].seq)
    /\ locals.records[1] = locals.records[3]
    /\ Len(report_csv[1]) = 4

\* C12: at the rendering stage both writes are attempted, whatever the
\* outcome of the other: the tabular write is followed by the chart write
\* whether or not it failed, a write that fails prints its error line and
\* raises nothing, neither write touches the other's file, and the chart
\* can still be written after the tabular write failed.
C12_WritesIndependent ==
    /\ [][ /\ pc = "csv" =>
                /\ pc' = "plot"
                /\ last'.op = "generate_csv_report"
                /\ report_csv' = None => HasMsg(last'.out, "ErrorCsv")
                /\ report_plot' = report_plot
                /\ ~crashed'
           /\ pc = "plot" =>
                /\ pc' = "done"
                /\ last'.op = "generate_plot"
                /\ report_plot' = None => HasMsg(last'.out, "ErrorPlot")
                /\ report_csv' = report_csv
                /\ ~crashed' ]_vars
    /\ [](pc = "csv" => ENABLED MainCsv)
    /\ [](pc = "plot" => ENABLED (MainPlot /\ report_plot' # None))

\* the run ended with the chart written although the tabular write failed
C12_Witness ==
    /\ pc = "done"
    /\ last.op = "generate_plot"
    /\ report_csv = None
    /\ report_plot # None

\* the values the stored count may take
AnyCounts == {None, Some(0), Some(2), Some(3), Some(1000)}

\* C13: a fetch_records call sends the gateway at most one fetch request,
\* with the caller's start as its offset, and the request is the same
\* whatever count is stored on the retriever.
C13_SingleRequestNoPaging ==
    last.op = "fetch_records" =>
        /\ Len(last.reqs) <= 1
        /\ \A i \in 1..Len(last.reqs) :
              /\ last.reqs[i].op = "efetch" /\ last.reqs[i].db = "nucleotide"
              /\ last.reqs[i].retstart = last.args[1]
        /\ \A c \in AnyCounts, gw \in FetchOutcomes :
              fetch_records([retriever EXCEPT !.count = c], last.args[1],
                            last.args[2], gw, remote).reqs = last.reqs

\* a fetch of one record from offset 1, on a session whose count says that
\* a further record remains, sent its one request
C13_Witness ==
    /\ last.op = "fetch_records"
    /\ last.args = <<1, 1>>
    /\ retriever.count = Some(3)
    /\ Len(last.reqs) = 1
    /\ last.reqs[1].retstart = 1
    /\ last.path = "ok"

\* C14: a pipeline run ends, whatever each remote call answers, and by
\* then has sent at most one lookup, one search and one fetch.
C14_RunTerminatesNoRetry ==
    /\ [](run_sent.lookup <= 1 /\ run_sent.search <= 1 /\ run_sent.fetch <= 1)
    /\ (pc = "input") ~> (pc = "done")

\* a run ended having sent one request of each kind, the fetch having faulted
C14_Witness ==
    /\ pc = "done"
    /\ run_sent = [lookup |-> 1, search |-> 1, fetch |-> 1]
    /\ last.path = "fetch_fault"

\* the paths on which search_taxid fails at the lookup, fails at the
\* search, or gets Count == 0
NoResultPaths == {"lookup_fault", "lookup_empty", "search_fault", "zero"}

\* C15: a search_taxid call that fails at the lookup, fails at the search
\* or gets Count == 0 leaves webenv, query_key and count as they were; a
\* fetch_records call that follows it on a retriever holding a session
\* sends its request with that webenv and query_key.
C15_FailedSearchKeepsSession ==
    [][ /\ (pc \in {"search", "client"} /\ last'.op = "search_taxid"
              /\ last'.path \in NoResultPaths)
           => retriever' = retriever
        /\ (last.op = "search_taxid" /\ last.path \in NoResultPaths
              /\ last'.op = "fetch_records" /\ HasSession(last.self))
           => /\ Len(last'.reqs) = 1
              /\ last'.reqs[1].webenv = last.self.webenv
              /\ last'.reqs[1].query_key = last.self.query_key
              /\ retriever' = last.self ]_vars

\* a search with Count == 0 returned on a retriever that holds the
\* session of an earlier search, and the session is still as that search
\* stored it
C15_Witness ==
    /\ pc = "client"
    /\ last.op = "search_taxid"
    /\ last.path = "zero"
    /\ sess # None
    /\ retriever = [webenv |-> sess[1].WebEnv, query_key |-> sess[1].QueryKey,
                    count |-> Some(IntOf(sess[1].Count[1]))]

\* C16: search_taxid returns a count exactly when it stored webenv,
\* query_key and count from the response of that call; the count returned
\* is positive and is the stored one.  Otherwise it returns None, and
\* query_key and count are as they were.
C16_CountReturnedIffStored ==
    [][ (pc \in {"search", "client"} /\ last'.op = "search_taxid") =>
           /\ (last'.ret # None) <=> (last'.path = "ok")
           /\ last'.ret # None =>
                 /\ last'.ret[1] > 0
                 /\ sess' # None
                 /\ last'.ret[1] = IntOf(sess'[1].Count[1])
                 /\ retriever' = [webenv |-> sess'[1].WebEnv,
                                  query_key |-> sess'[1].QueryKey,
                                  count |-> last'.ret]
           /\ last'.ret = None =>
                 /\ retriever'.query_key = retriever.query_key
                 /\ retriever'.count = retriever.count
                 /\ sess' = sess ]_vars

\* a second search on a retriever replaced the session and returned the
\* new count
C16_Witness ==
    /\ pc = "client"
    /\ last.op = "search_taxid"
    /\ last.ret = Some(3)
    /\ last.self # NoSession
    /\ retriever.count = Some(3)
    /\ retriever.webenv = Some("w2")

====
